---- MODULE Spec2Model ----
(***************************************************************************)
(* fasta-kmer-counter: the traversal-and-format-sniffing core of           *)
(* src/src/main.rs.                                                        *)
(*                                                                         *)
(*   Spec       main, count_path and count_directory as a stack machine    *)
(*              over a filesystem that answers each read_dir and open;     *)
(*              count_file, count_tar_file and count_fasta_file are the    *)
(*              calls a file's step makes.                                 *)
(*   FastaSpec  count_fasta_file as a byte-level state machine: one step   *)
(*              per read_u8, over every byte stream up to MaxLen bytes.    *)
(***************************************************************************)
EXTENDS Integers, Sequences, FiniteSets, TLC

VARIABLES
    k,             \* Cli.k
    inputs,        \* Cli.input, the root paths
    next_input,    \* main: index of the next root path of the for loop
    total_count,   \* main: total_count
    output,        \* what main has printed to standard output
    stack,         \* the pending calls of count_path and count_directory
    ret,           \* the value the call that just returned hands its caller
    root_counts,   \* history: the counts main has added, in order
    listed,        \* history: how many directory entries have been enumerated
    fasta_input,   \* the byte stream handed to count_fasta_file
    reader         \* count_fasta_file's locals and its position in the code

walk_vars ==
    <<inputs, next_input, total_count, output, stack, ret, root_counts, listed>>
fasta_vars == <<fasta_input, reader>>
vars == <<k, walk_vars, fasta_vars>>

----------------------------------------------------------------------------
(* Bounds *)

MaxLen == 6        \* longest byte stream enumerated exhaustively
MaxK == 5          \* largest k
MaxInputs == 2     \* most root paths on the command line
MaxListed == 3     \* most directory entries enumerated in one scan
MaxEntries == 2    \* most entries of one archive
BlockSize == 4     \* bytes of one archive block (512 in the tape format)

----------------------------------------------------------------------------
(* Bytes *)

GT == 62           \* b'>'
LF == 10           \* b'\n'
CR == 13           \* b'\r'

\* The bytes the counter tells apart: the marker, the two line boundaries and
\* one residue byte ('A').
Alphabet == {GT, LF, CR, 65}

\* main.rs:143, 151, 175, 179: a line boundary
IsNewlineLFOnly(b) == b = LF
IsNewline(b) == b = LF \/ b = CR

\* Option<usize>: None is the empty tuple, Some(n) the one-element tuple.
None == <<>>
Some(n) == <<n>>
unwrap_or_default(o) == IF o = None THEN 0 ELSE o[1]

Max(a, b) == IF a >= b THEN a ELSE b

----------------------------------------------------------------------------
(* count_fasta_file, main.rs:127-187 *)

saturating_sub(a, b) == IF a >= b THEN a - b ELSE 0

\* main.rs:182, the k-mers of a record of character_count characters.
KmerContributionWrapping(character_count, kk) == (character_count + 1) - kk
KmerContribution(character_count, kk) == saturating_sub(character_count + 1, kk)

\* reader.read_u8(): Ok(b) while bytes remain, Err at the end of the stream.
ReadOk(r, bytes) == r.pos < Len(bytes)
ReadByte(r, bytes) == bytes[r.pos + 1]

\* main.rs:132-136, the locals on entry.
NewReader ==
    [pc |-> "seek", pos |-> 0, sum |-> 0, last_is_newline |-> TRUE,
     has_characters |-> FALSE, character_count |-> 0, result |-> None]

\* main.rs:146-148, the top of `loop`.
EnterLoop(r) == [r EXCEPT !.pc = "header", !.has_characters = FALSE]

\* main.rs:136-144, one read of "Skip to entry header start".
SkipToHeaderStartAnywhere(r, bytes) ==
    IF ReadOk(r, bytes)
    THEN LET b == ReadByte(r, bytes)
             r1 == [r EXCEPT !.pos = r.pos + 1]
         IN  IF b = GT
             THEN EnterLoop(r1)
             ELSE [r1 EXCEPT !.last_is_newline = IsNewline(b)]
    ELSE EnterLoop(r)

SkipToHeaderStart(r, bytes) ==
    IF ReadOk(r, bytes)
    THEN LET b == ReadByte(r, bytes)
             r1 == [r EXCEPT !.pos = r.pos + 1]
         IN  IF r.last_is_newline /\ b = GT
             THEN EnterLoop(r1)
             ELSE [r1 EXCEPT !.last_is_newline = IsNewline(b)]
    ELSE EnterLoop(r)

\* main.rs:160-162, the locals of "Count entry characters".
EnterCounting(r) ==
    [r EXCEPT !.pc = "count", !.character_count = 0, !.last_is_newline = TRUE]

\* main.rs:148-158, one read of "Skip entry header".
SkipEntryHeaderStuck(r, bytes) ==
    IF ReadOk(r, bytes)
    THEN LET b == ReadByte(r, bytes)
             r1 == [r EXCEPT !.pos = r.pos + 1, !.has_characters = TRUE]
         IN  IF IsNewline(b) THEN EnterCounting(r1) ELSE r1
    ELSE IF ~r.has_characters
         THEN EnterLoop(r)
         ELSE EnterCounting(r)

SkipEntryHeaderStrict(r, bytes) ==
    IF ReadOk(r, bytes)
    THEN LET b == ReadByte(r, bytes)
             r1 == [r EXCEPT !.pos = r.pos + 1, !.has_characters = TRUE]
         IN  IF IsNewline(b) THEN EnterCounting(r1) ELSE r1
    ELSE IF ~r.has_characters
         THEN [r EXCEPT !.pc = "done", !.result = Some(r.sum)]
         ELSE [r EXCEPT !.pc = "done", !.result = None]

SkipEntryHeader(r, bytes) ==
    IF ReadOk(r, bytes)
    THEN LET b == ReadByte(r, bytes)
             r1 == [r EXCEPT !.pos = r.pos + 1, !.has_characters = TRUE]
         IN  IF IsNewline(b) THEN EnterCounting(r1) ELSE r1
    ELSE IF ~r.has_characters
         THEN [r EXCEPT !.pc = "done", !.result = Some(r.sum)]   \* 156-157, 185-186
         ELSE EnterCounting(r)

\* main.rs:182, the record is closed and the loop starts over.
CloseRecord(r, kk) ==
    EnterLoop([r EXCEPT !.sum = r.sum + KmerContribution(r.character_count, kk)])

\* main.rs:163-182, one read of "Count entry characters".
CountEntryCharactersLenient(r, bytes, kk) ==
    IF ReadOk(r, bytes)
    THEN LET b == ReadByte(r, bytes)
             r1 == [r EXCEPT !.pos = r.pos + 1]
         IN  IF b = GT
             THEN CloseRecord(r1, kk)
             ELSE [r1 EXCEPT !.character_count =
                                 IF IsNewline(b) THEN @ ELSE @ + 1,
                             !.last_is_newline = IsNewline(b)]
    ELSE CloseRecord(r, kk)

CountEntryCharactersNoSum(r, bytes, kk) ==
    IF ReadOk(r, bytes)
    THEN LET b == ReadByte(r, bytes)
             r1 == [r EXCEPT !.pos = r.pos + 1]
         IN  IF b = GT
             THEN IF r.last_is_newline
                  THEN EnterLoop([r1 EXCEPT !.sum =
                                    KmerContribution(r.character_count, kk)])
                  ELSE [r1 EXCEPT !.pc = "done", !.result = None]
             ELSE [r1 EXCEPT !.character_count =
                                 IF IsNewline(b) THEN @ ELSE @ + 1,
                             !.last_is_newline = IsNewline(b)]
    ELSE EnterLoop([r EXCEPT !.sum = KmerContribution(r.character_count, kk)])

CountEntryCharactersPartial(r, bytes, kk) ==
    IF ReadOk(r, bytes)
    THEN LET b == ReadByte(r, bytes)
             r1 == [r EXCEPT !.pos = r.pos + 1]
         IN  IF b = GT
             THEN IF r.last_is_newline
                  THEN CloseRecord(r1, kk)
                  ELSE [r1 EXCEPT !.pc = "done", !.result = Some(r.sum)]
             ELSE [r1 EXCEPT !.character_count =
                                 IF IsNewline(b) THEN @ ELSE @ + 1,
                             !.last_is_newline = IsNewline(b)]
    ELSE CloseRecord(r, kk)

CountEntryCharacters(r, bytes, kk) ==
    IF ReadOk(r, bytes)
    THEN LET b == ReadByte(r, bytes)
             r1 == [r EXCEPT !.pos = r.pos + 1]
         IN  IF b = GT
             THEN IF r.last_is_newline
                  THEN CloseRecord(r1, kk)                          \* 165-167
                  ELSE [r1 EXCEPT !.pc = "done", !.result = None]   \* 168-171
             ELSE [r1 EXCEPT !.character_count =
                                 IF IsNewline(b) THEN @ ELSE @ + 1,
                             !.last_is_newline = IsNewline(b)]
    ELSE CloseRecord(r, kk)

\* One read_u8 of count_fasta_file, wherever the reader stands.
ReaderStep(r, bytes, kk) ==
    CASE r.pc = "seek"   -> SkipToHeaderStart(r, bytes)
      [] r.pc = "header" -> SkipEntryHeader(r, bytes)
      [] r.pc = "count"  -> CountEntryCharacters(r, bytes, kk)
      [] OTHER           -> r

RECURSIVE RunReader(_, _, _)
RunReader(r, bytes, kk) ==
    IF r.pc = "done" THEN r ELSE RunReader(ReaderStep(r, bytes, kk), bytes, kk)

\* The whole call, as its callers see it.
count_fasta_file(bytes, kk) == RunReader(NewReader, bytes, kk).result

----------------------------------------------------------------------------
(* FastaSpec: count_fasta_file on every stream of at most MaxLen bytes and *)
(* on the sample streams.                                                  *)

\* spec.md section 8: ">seqA\nACGTACGT\n>seqB\nAC\n"
ScenarioStream ==
    <<62, 115, 101, 113, 65, 10, 65, 67, 71, 84, 65, 67, 71, 84, 10,
      62, 115, 101, 113, 66, 10, 65, 67, 10>>

\* ">a\nAC\n>b\nACG>T": two well-formed records, then a marker in mid-line.
MidLineStream ==
    <<62, 97, 10, 65, 67, 10, 62, 98, 10, 65, 67, 71, 62, 84>>

SampleStreams == {ScenarioStream, MidLineStream}

Streams == UNION {[1..n -> Alphabet] : n \in 0..MaxLen} \cup SampleStreams

FastaInit ==
    /\ fasta_input \in Streams
    /\ k \in 0..MaxK
    /\ reader = NewReader
    /\ inputs = <<>>
    /\ next_input = 1
    /\ total_count = 0
    /\ output = <<>>
    /\ stack = <<>>
    /\ ret = <<>>
    /\ root_counts = <<>>
    /\ listed = 0

SeekHeader ==
    /\ reader.pc = "seek"
    /\ reader' = SkipToHeaderStart(reader, fasta_input)
    /\ UNCHANGED <<fasta_input, k, walk_vars>>

SkipHeader ==
    /\ reader.pc = "header"
    /\ reader' = SkipEntryHeader(reader, fasta_input)
    /\ UNCHANGED <<fasta_input, k, walk_vars>>

CountCharacters ==
    /\ reader.pc = "count"
    /\ reader' = CountEntryCharacters(reader, fasta_input, k)
    /\ UNCHANGED <<fasta_input, k, walk_vars>>

FastaNext == SeekHeader \/ SkipHeader \/ CountCharacters

FastaSpec == FastaInit /\ [][FastaNext]_vars

FastaDone == reader.pc = "done"

----------------------------------------------------------------------------
(* The archive container as tokio_tar reads it (main.rs:102-109): blocks   *)
(* of BlockSize bytes, one header block per entry (name, size in octal     *)
(* digits, magic), the entry's bytes padded with NUL to a whole block, and *)
(* two zero blocks at the end.                                             *)

ZeroBlock == [i \in 1..BlockSize |-> 0]
OctalDigit(d) == 48 + d
\* 'f', two octal digits of the size, 'u'
HeaderFields(size) == <<102, OctalDigit(size \div 8), OctalDigit(size % 8), 117>>
HeaderBlock(size) ==
    HeaderFields(size) \o [i \in 1..(BlockSize - Len(HeaderFields(size))) |-> 0]
Padding(size) == [i \in 1..((BlockSize - (size % BlockSize)) % BlockSize) |-> 0]

\* The entries of an archive, without the blocks that end it.
RECURSIVE TarBlocks(_)
TarBlocks(es) ==
    IF es = <<>> THEN <<>>
    ELSE HeaderBlock(Len(Head(es))) \o Head(es) \o Padding(Len(Head(es)))
             \o TarBlocks(Tail(es))

\* The bytes of an archive file holding the entries es.
TarEncode(es) == TarBlocks(es) \o ZeroBlock \o ZeroBlock

IsOctal(b) == b \in 48..55
ValidHeader(h) == IsOctal(h[2]) /\ IsOctal(h[3]) /\ h[4] = 117
HeaderSize(h) == (h[2] - 48) * 8 + (h[3] - 48)

\* Archive::entries(), main.rs:103: refused unless the archive is unread.
ArchiveEntriesOk(pos) == pos = 0

\* entries.next(), main.rs:109, with the archive at offset pos: "ok" is
\* Some(Ok(file)) with the entry's bytes and the offset of the next header,
\* "none" is None (end of archive) and "err" is Some(Err(_)).
EntriesNext(bytes, pos) ==
    IF pos >= Len(bytes) THEN [kind |-> "none", body |-> <<>>, next |-> pos]
    ELSE IF pos + BlockSize > Len(bytes)
    THEN [kind |-> "err", body |-> <<>>, next |-> pos]
    ELSE LET h == SubSeq(bytes, pos + 1, pos + BlockSize)
             size == HeaderSize(h)
             from == pos + BlockSize
             to == IF from + size <= Len(bytes) THEN from + size ELSE Len(bytes)
         IN  IF h = ZeroBlock THEN [kind |-> "none", body |-> <<>>, next |-> pos]
             ELSE IF ~ValidHeader(h) THEN [kind |-> "err", body |-> <<>>, next |-> pos]
             ELSE [kind |-> "ok", body |-> SubSeq(bytes, from + 1, to),
                   next |-> from + size + Len(Padding(size))]

\* main.rs:109-113, the loop over the entries: each entry goes to
\* count_fasta_file, and a negative verdict adds 0.
RECURSIVE TarLoopFirstOnly(_, _, _, _)
TarLoopFirstOnly(bytes, pos, sum, kk) ==
    LET e == EntriesNext(bytes, pos)
    IN  IF e.kind = "ok" /\ pos = 0
        THEN TarLoopFirstOnly(bytes, e.next,
                 sum + unwrap_or_default(count_fasta_file(e.body, kk)), kk)
        ELSE sum

RECURSIVE TarLoop(_, _, _, _)
TarLoop(bytes, pos, sum, kk) ==
    LET e == EntriesNext(bytes, pos)
    IN  IF e.kind = "ok"
        THEN TarLoop(bytes, e.next,
                 sum + unwrap_or_default(count_fasta_file(e.body, kk)), kk)
        ELSE sum

\* The offset the archive attempt leaves the file at: reading starts at
\* pos, every header block and every entry read moves it on, and it stops
\* behind the block that ended the loop of main.rs:109.
RECURSIVE ArchiveOffset(_, _)
ArchiveOffset(bytes, pos) ==
    LET e == EntriesNext(bytes, pos)
        stop == IF e.kind = "ok" THEN e.next ELSE pos + BlockSize
    IN  IF stop >= Len(bytes) THEN Len(bytes)
        ELSE IF e.kind = "ok" THEN ArchiveOffset(bytes, stop)
        ELSE stop

\* main.rs:96-125
count_tar_file(bytes, kk) ==
    IF ~ArchiveEntriesOk(0) THEN None                    \* 103-106
    ELSE LET sum == TarLoop(bytes, 0, 0, kk)
         IN  IF sum = 0 THEN None ELSE Some(sum)         \* 115-123

----------------------------------------------------------------------------
(* The filesystem: what read_dir and File::open answer for a path.         *)

\* Neither read_dir nor File::open succeeds (missing, no permission).
Missing == [read_dir |-> FALSE, open |-> FALSE, bytes |-> <<>>, seekable |-> FALSE]
\* A directory: read_dir succeeds; File::open succeeds too, and every read
\* of that handle fails.
Directory == [read_dir |-> TRUE, open |-> TRUE, bytes |-> <<>>, seekable |-> TRUE]
\* A file of the given bytes; seek fails on an unseekable one (a FIFO).
File(bytes, seekable) ==
    [read_dir |-> FALSE, open |-> TRUE, bytes |-> bytes, seekable |-> seekable]

\* file.seek(SeekFrom::Start(0)), main.rs:84
SeekStartOk(file) == file.seekable
\* The bytes a reader sees from offset pos on.
Rest(bytes, pos) == SubSeq(bytes, pos + 1, Len(bytes))

\* main.rs:80-94
count_file_unsought(file, kk) ==
    LET tar == count_tar_file(file.bytes, kk)
    IN  IF tar # None THEN tar[1]
        ELSE IF ~SeekStartOk(file) THEN 0
        ELSE unwrap_or_default(
                 count_fasta_file(Rest(file.bytes, ArchiveOffset(file.bytes, 0)), kk))

count_file(file, kk) ==
    LET tar == count_tar_file(file.bytes, kk)
    IN  IF tar # None THEN tar[1]                                   \* 81-82
        ELSE IF ~SeekStartOk(file) THEN 0                           \* 84-86
        ELSE LET fasta == count_fasta_file(Rest(file.bytes, 0), kk)
             IN  IF fasta # None THEN fasta[1] ELSE 0               \* 87-92

\* main.rs:57-64: a directory first, then a file, else ignored.
ClassifyFileFirst(node) ==
    IF node.open THEN "file"
    ELSE IF node.read_dir THEN "directory"
    ELSE "ignore"

Classify(node) ==
    IF node.read_dir THEN "directory"
    ELSE IF node.open THEN "file"
    ELSE "ignore"

----------------------------------------------------------------------------
(* The inputs of Spec *)

\* ">a\n" and n residue bytes
Record(n) == <<62, 97, 10>> \o [i \in 1..n |-> 65]

\* ">a\nAA\n>a\nAA": two records of 2 residues
ShortRecords == Record(2) \o <<LF>> \o Record(2)

\* What an archive entry may hold: records of 10, 20 and 2 residues, two
\* short records, a stream that is not in the sequence format, nothing.
EntryStreams == {Record(10), Record(20), Record(2), ShortRecords, MidLineStream, <<>>}
EntryLists == UNION {[1..n -> EntryStreams] : n \in 1..MaxEntries}

Archives == {TarEncode(es) : es \in EntryLists}
\* An archive whose one entry is itself an archive of one entry.
NestedArchives == {TarEncode(<<TarEncode(<<e>>)>>) : e \in EntryStreams}
\* An archive that ends in a torn header block.
TornArchives == {TarBlocks(es) \o <<102>> : es \in EntryLists}
RawStreams == {<<>>, ScenarioStream, MidLineStream, Record(10)}

RootFiles ==
    {File(b, s) : b \in RawStreams \cup Archives \cup NestedArchives \cup TornArchives,
                  s \in BOOLEAN}
\* The nodes a directory may list, and a root path when there are several:
\* an unopenable path, a sequence file, a file that is neither an archive
\* nor in the sequence format, a directory.
LeafNodes == {Missing, File(ScenarioStream, TRUE), File(MidLineStream, TRUE)}
TreeNodes == LeafNodes \cup {Directory}
\* What a root path may be: every file above when it is the only root path.
RootNodes == IF Len(inputs) = 1 THEN TreeNodes \cup RootFiles ELSE TreeNodes

----------------------------------------------------------------------------
(* main, count_path and count_directory *)

Top == stack[Len(stack)]
Pop == SubSeq(stack, 1, Len(stack) - 1)
Running(fn) == stack # <<>> /\ Top.fn = fn

\* A pending call count_path(path, k); node is what the path is. Once
\* read_dir has succeeded the frame is count_directory's: sum is its sum,
\* yielded the number of entries next_entry() has given, and parts the
\* history of those entries, each with the count that was added for it.
PathCall(path, node) ==
    [fn |-> "count_path", path |-> path, node |-> node,
     yielded |-> 0, sum |-> 0, parts |-> <<>>]

\* What a returned call hands over: count is the usize; the rest is history
\* (what the path was, how it was handled, and for a directory the entries
\* it enumerated, how the enumeration ended and what it left unlisted).
Returned(count, how, f, ended, unlisted) ==
    <<[count |-> count, how |-> how, path |-> f.path, node |-> f.node,
       yielded |-> f.yielded, parts |-> f.parts, ended |-> ended,
       unlisted |-> unlisted]>>

Init ==
    /\ k \in 1..MaxK
    /\ inputs \in {[i \in 1..n |-> <<i>>] : n \in 0..MaxInputs}
    /\ next_input = 1
    /\ total_count = 0
    /\ output = <<>>
    /\ stack = <<>>
    /\ ret = <<>>
    /\ root_counts = <<>>
    /\ listed = 0
    /\ fasta_input = <<>>
    /\ reader = NewReader

\* main.rs:47-48, the call for the next root path
main_call ==
    /\ stack = <<>> /\ ret = <<>> /\ output = <<>>
    /\ next_input <= Len(inputs)
    /\ \E node \in RootNodes : stack' = <<PathCall(inputs[next_input], node)>>
    /\ UNCHANGED <<k, inputs, next_input, total_count, output, ret, root_counts,
                   listed, fasta_vars>>

\* main.rs:48, total_count += the returned count
main_add ==
    /\ stack = <<>> /\ ret # <<>>
    /\ total_count' = total_count + ret[1].count
    /\ root_counts' = Append(root_counts, ret[1].count)
    /\ next_input' = next_input + 1
    /\ ret' = <<>>
    /\ UNCHANGED <<k, inputs, output, stack, listed, fasta_vars>>

\* main.rs:51
main_print ==
    /\ stack = <<>> /\ ret = <<>> /\ output = <<>>
    /\ next_input > Len(inputs)
    /\ output' = <<total_count>>
    /\ UNCHANGED <<k, inputs, next_input, total_count, stack, ret, root_counts,
                   listed, fasta_vars>>

\* main.rs:57-58: read_dir succeeds and count_directory takes the call over.
count_path_directory ==
    /\ Running("count_path") /\ ret = <<>>
    /\ Classify(Top.node) = "directory"
    /\ stack' = Append(Pop, [Top EXCEPT !.fn = "count_directory"])
    /\ UNCHANGED <<k, inputs, next_input, total_count, output, ret, root_counts,
                   listed, fasta_vars>>

\* count_file(file, kk) for every path of the model that File::open opens,
\* computed once.
FileNodes == RootFiles \cup {n \in TreeNodes : n.open}
CountFileTable == {<<n, kk, count_file(n, kk)>> : n \in FileNodes, kk \in 1..MaxK}
count_file_of(file, kk) ==
    (CHOOSE t \in CountFileTable : t[1] = file /\ t[2] = kk)[3]

\* main.rs:59-60: File::open succeeds and count_file gives the count.
count_path_file_aborts ==
    /\ Running("count_path") /\ ret = <<>>
    /\ Classify(Top.node) = "file"
    /\ ret' = Returned(count_file_of(Top.node, k), "file", Top, "-", <<>>)
    /\ stack' = IF /\ count_tar_file(Top.node.bytes, k) = None
                   /\ count_fasta_file(Top.node.bytes, k) = None
                THEN <<>> ELSE Pop
    /\ UNCHANGED <<k, inputs, next_input, total_count, output, root_counts,
                   listed, fasta_vars>>

count_path_file ==
    /\ Running("count_path") /\ ret = <<>>
    /\ Classify(Top.node) = "file"
    /\ ret' = Returned(count_file_of(Top.node, k), "file", Top, "-", <<>>)
    /\ stack' = Pop
    /\ UNCHANGED <<k, inputs, next_input, total_count, output, root_counts,
                   listed, fasta_vars>>

\* main.rs:61-64: "If everything fails, just ignore it."
count_path_ignore ==
    /\ Running("count_path") /\ ret = <<>>
    /\ Classify(Top.node) = "ignore"
    /\ ret' = Returned(0, "ignored", Top, "-", <<>>)
    /\ stack' = Pop
    /\ UNCHANGED <<k, inputs, next_input, total_count, output, root_counts,
                   listed, fasta_vars>>

\* main.rs:71-72: next_entry() is Ok(Some(entry)); count_path(entry.path()).
directory_next_entry ==
    /\ Running("count_directory") /\ ret = <<>>
    /\ listed < MaxListed
    /\ \E node \in TreeNodes :
           stack' = Append(Append(Pop, [Top EXCEPT !.yielded = Top.yielded + 1]),
                           PathCall(Append(Top.path, Top.yielded + 1), node))
    /\ listed' = listed + 1
    /\ UNCHANGED <<k, inputs, next_input, total_count, output, ret, root_counts,
                   fasta_vars>>

\* main.rs:72, sum += the entry's count
directory_add_overwrites ==
    /\ Running("count_directory") /\ ret # <<>>
    /\ stack' = Append(Pop, [Top EXCEPT
                   !.sum = ret[1].count,
                   !.parts = Append(Top.parts, [node |-> ret[1].node,
                                                count |-> ret[1].count])])
    /\ ret' = <<>>
    /\ UNCHANGED <<k, inputs, next_input, total_count, output, root_counts,
                   listed, fasta_vars>>

directory_add_first_wins ==
    /\ Running("count_directory") /\ ret # <<>>
    /\ stack' = Append(Pop, [Top EXCEPT
                   !.sum = IF Top.sum > 0 THEN Top.sum ELSE ret[1].count,
                   !.parts = Append(Top.parts, [node |-> ret[1].node,
                                                count |-> ret[1].count])])
    /\ ret' = <<>>
    /\ UNCHANGED <<k, inputs, next_input, total_count, output, root_counts,
                   listed, fasta_vars>>

directory_add ==
    /\ Running("count_directory") /\ ret # <<>>
    /\ stack' = Append(Pop, [Top EXCEPT
                   !.sum = Top.sum + ret[1].count,
                   !.parts = Append(Top.parts, [node |-> ret[1].node,
                                                count |-> ret[1].count])])
    /\ ret' = <<>>
    /\ UNCHANGED <<k, inputs, next_input, total_count, output, root_counts,
                   listed, fasta_vars>>

\* main.rs:71 and 75-76: next_entry() is Ok(None), the listing is exhausted.
directory_end ==
    /\ Running("count_directory") /\ ret = <<>>
    /\ ret' = Returned(Top.sum, "directory", Top, "end", <<>>)
    /\ stack' = Pop
    /\ UNCHANGED <<k, inputs, next_input, total_count, output, root_counts,
                   listed, fasta_vars>>

\* main.rs:71 and 75-76: next_entry() is Err(_); unlisted is the entry the
\* enumeration failed on, if the directory had one left.
directory_error_discards ==
    /\ Running("count_directory") /\ ret = <<>>
    /\ \E unlisted \in {<<>>} \cup {<<n>> : n \in LeafNodes} :
           ret' = Returned(0, "directory", Top, "error", unlisted)
    /\ stack' = Pop
    /\ UNCHANGED <<k, inputs, next_input, total_count, output, root_counts,
                   listed, fasta_vars>>

directory_error ==
    /\ Running("count_directory") /\ ret = <<>>
    /\ \E unlisted \in {<<>>} \cup {<<n>> : n \in LeafNodes} :
           ret' = Returned(Top.sum, "directory", Top, "error", unlisted)
    /\ stack' = Pop
    /\ UNCHANGED <<k, inputs, next_input, total_count, output, root_counts,
                   listed, fasta_vars>>

Next ==
    \/ main_call
    \/ main_add
    \/ main_print
    \/ count_path_directory
    \/ count_path_file
    \/ count_path_ignore
    \/ directory_next_entry
    \/ directory_add
    \/ directory_end
    \/ directory_error

Spec == Init /\ [][Next]_vars

\* main has printed the total.
Printed == output # <<>>

----------------------------------------------------------------------------
(* ScanSpec: the two machines in one run, for termination. The reader is   *)
(* run on its stream, then main scans its root paths. Every step that can  *)
(* be taken is taken in the end: the runtime polls main's future until it  *)
(* is ready, and no step waits on anything but its own finite input. k     *)
(* bears on no branch of the code, so the runs are those with k = 1.       *)

ScanInit == (Init \/ FastaInit) /\ k = 1
ScanWalk == FastaDone /\ Next
ScanNext == FastaNext \/ ScanWalk
ScanSpec ==
    ScanInit /\ [][ScanNext]_vars /\ WF_vars(FastaNext) /\ WF_vars(ScanWalk)

----------------------------------------------------------------------------
(* The sequence format, stated on the stream alone (spec.md sections 4.4   *)
(* and 6), as the reference the counter is held against.                   *)

Min(S) == CHOOSE x \in S : \A y \in S : x <= y

\* A marker in header position: at offset 0 or right after a line boundary.
InHeaderPosition(s, i) == s[i] = GT /\ (i = 1 \/ IsNewline(s[i - 1]))
\* A marker whose preceding byte exists and is no line boundary.
IsMidLine(s, i) == i > 1 /\ s[i] = GT /\ ~IsNewline(s[i - 1])

HeaderStarts(s) == {i \in 1..Len(s) : InHeaderPosition(s, i)}
NewlinesAfter(s, g) == {j \in (g + 1)..Len(s) : IsNewline(s[j])}
\* The header line that starts at g ends at its first line boundary.
HeaderEnd(s, g) == Min(NewlinesAfter(s, g) \cup {Len(s) + 1})
NextStart(s, g) == Min({h \in HeaderStarts(s) : h > g} \cup {Len(s) + 1})
\* The record that starts at g holds the bytes after its header line and
\* before the next header; its length counts those that are no line boundary.
RecordLength(s, g) ==
    Cardinality({j \in (HeaderEnd(s, g) + 1)..(NextStart(s, g) - 1) :
                    ~IsNewline(s[j])})

\* Position i lies in the body of a record: a header started at or before it
\* and that header's line has ended before i.
InBody(s, i) ==
    \E g \in HeaderStarts(s) :
        /\ g < i
        /\ \A h \in HeaderStarts(s) : h < i => h <= g
        /\ HeaderEnd(s, g) < i

\* Header lines ended by a line boundary, bodies without '>'.
WellFormed(s) ==
    /\ Len(s) >= 1
    /\ s[1] = GT
    /\ \A g \in HeaderStarts(s) : HeaderEnd(s, g) <= Len(s)
    /\ \A i \in 1..Len(s) : s[i] = GT => InHeaderPosition(s, i) \/ ~InBody(s, i)

RECURSIVE SumOver(_, _, _)
SumOver(S, s, kk) ==
    IF S = {} THEN 0
    ELSE LET g == CHOOSE x \in S : TRUE
         IN  Max(RecordLength(s, g) - kk + 1, 0) + SumOver(S \ {g}, s, kk)

RecordSum(s, kk) == SumOver(HeaderStarts(s), s, kk)

\* One header line, then L residue bytes and nothing else.
IsSingleRecord(s) ==
    /\ WellFormed(s)
    /\ Cardinality(HeaderStarts(s)) = 1
    /\ \A j \in (HeaderEnd(s, 1) + 1)..Len(s) : ~IsNewline(s[j])

ResidueCount(s) == Len(s) - HeaderEnd(s, 1)

----------------------------------------------------------------------------
(* Claims on count_fasta_file (FastaSpec) *)

\* C1: a single well-formed record of L residue bytes counts
\* max(L - k + 1, 0) for every k >= 1, never a negative or wrapped value.
C1_SingleRecordCount ==
    (FastaDone /\ k >= 1 /\ IsSingleRecord(fasta_input))
        => reader.result = Some(Max(ResidueCount(fasta_input) - k + 1, 0))

\* A record of exactly k - 1 residues has been counted as 0.
C1_Witness ==
    /\ FastaDone /\ k >= 2 /\ IsSingleRecord(fasta_input)
    /\ ResidueCount(fasta_input) = k - 1
    /\ reader.result = Some(0)

\* C2 as stated: a stream with no marker in header position ends in the
\* negative verdict, never in a successful count.
C2_NoHeaderIsNegative ==
    (FastaDone /\ k >= 1 /\ HeaderStarts(fasta_input) = {}) => reader.result = None

\* C3 as stated, on the streams that do hold a header: any marker in
\* mid-line makes the verdict negative.
C3_AnyMidLineIsNegative ==
    (/\ FastaDone /\ k >= 1
     /\ HeaderStarts(fasta_input) # {}
     /\ \E i \in 1..Len(fasta_input) : IsMidLine(fasta_input, i))
        => reader.result = None

\* C3 amended: a marker in mid-line inside a record body makes the verdict
\* negative, whatever well-formed records came before it.
C3_MidLineInBodyIsNegative ==
    (/\ FastaDone
     /\ \E i \in 1..Len(fasta_input) :
            IsMidLine(fasta_input, i) /\ InBody(fasta_input, i))
        => reader.result = None

\* Two well-formed records that would have counted, then the marker.
C3_Witness ==
    /\ FastaDone /\ k = 1
    /\ fasta_input = MidLineStream
    /\ reader.result = None
    /\ reader.sum > 0

\* C4: a well-formed stream of n >= 1 records counts the sum of
\* max(L_i - k + 1, 0) over its records.
C4_WellFormedSum ==
    (FastaDone /\ k >= 1 /\ WellFormed(fasta_input))
        => reader.result = Some(RecordSum(fasta_input, k))

\* The scenario of spec.md section 8: lengths 8 and 2 with k = 4 give 5.
C4_Witness ==
    /\ FastaDone /\ k = 4
    /\ fasta_input = ScenarioStream
    /\ WellFormed(fasta_input)
    /\ {RecordLength(fasta_input, g) : g \in HeaderStarts(fasta_input)} = {8, 2}
    /\ reader.result = Some(5)

\* C16: in the counting loop, a '>' read when the byte before it was no
\* line boundary ends the call with the negative verdict, whatever sum the
\* earlier records had brought; no partial count is returned.
C16_MidLineInCountingDiscards ==
    [][(/\ reader.pc = "count"
        /\ ReadOk(reader, fasta_input)
        /\ ReadByte(reader, fasta_input) = GT
        /\ ~reader.last_is_newline)
          => (reader'.pc = "done" /\ reader'.result = None)]_vars

\* A record that had brought a count, then the marker inside the next one.
C16_Witness ==
    /\ FastaDone /\ k = 2
    /\ fasta_input = MidLineStream
    /\ reader.pos = 13
    /\ reader.sum = 1
    /\ reader.result = None

\* The stream ends inside a header line: some header start has no line
\* boundary after it. It is the last header start.
HasTruncatedHeader(s) == \E g \in HeaderStarts(s) : NewlinesAfter(s, g) = {}
TruncatedHeaderStart(s) == CHOOSE g \in HeaderStarts(s) : NewlinesAfter(s, g) = {}
BeforeTruncatedHeader(s) == SubSeq(s, 1, TruncatedHeaderStart(s) - 1)

\* C17: when the stream ends inside a header line, the result for k >= 1 is
\* that of the stream before that header: the sum of the earlier records
\* when they are well-formed, 0 when there are none, and the truncated
\* header brings no negative verdict.
C17_TruncatedHeaderIsGraceful ==
    (FastaDone /\ k >= 1 /\ HasTruncatedHeader(fasta_input)) =>
        LET before == BeforeTruncatedHeader(fasta_input)
        IN  /\ reader.result = count_fasta_file(before, k)
            /\ WellFormed(before) => reader.result = Some(RecordSum(before, k))
            /\ HeaderStarts(before) = {} => reader.result = Some(0)

\* ">\nA\n>A": one record of one residue, then a header the stream ends in.
C17_Witness ==
    /\ FastaDone /\ k = 1
    /\ fasta_input = <<GT, LF, 65, LF, GT, 65>>
    /\ HasTruncatedHeader(fasta_input)
    /\ reader.result = Some(1)

\* Every LF replaced by CR, and by CR LF; a line boundary inserted before
\* position i.
LFtoCR(s) == [i \in 1..Len(s) |-> IF s[i] = LF THEN CR ELSE s[i]]
RECURSIVE LFtoCRLF(_)
LFtoCRLF(s) ==
    IF s = <<>> THEN <<>>
    ELSE (IF Head(s) = LF THEN <<CR, LF>> ELSE <<Head(s)>>) \o LFtoCRLF(Tail(s))
InsertAt(s, i, b) == SubSeq(s, 1, i - 1) \o <<b>> \o SubSeq(s, i, Len(s))

\* A well-formed stream behind any bytes that hold no header start.
WellFormedFromFirstHeader(s) ==
    /\ HeaderStarts(s) # {}
    /\ WellFormed(SubSeq(s, Min(HeaderStarts(s)), Len(s)))

\* C18: on a well-formed stream, with or without bytes before its first
\* header, the result is unchanged when every LF is replaced by CR or by
\* CR LF, and when a line boundary is inserted anywhere in a record body.
C18_LineBoundariesUniform ==
    (FastaDone /\ k >= 1 /\ WellFormedFromFirstHeader(fasta_input)) =>
        /\ count_fasta_file(LFtoCR(fasta_input), k) = reader.result
        /\ count_fasta_file(LFtoCRLF(fasta_input), k) = reader.result
        /\ \A i \in 1..(Len(fasta_input) + 1) : \A b \in {LF, CR} :
               InBody(fasta_input, i)
                   => count_fasta_file(InsertAt(fasta_input, i, b), k) = reader.result

\* "\n>\r\nA\n": LF before the header, CR LF ends the header line, LF ends
\* the body's only line.
C18_Witness ==
    /\ FastaDone /\ k = 1
    /\ fasta_input = <<LF, GT, CR, LF, 65, LF>>
    /\ WellFormedFromFirstHeader(fasta_input)
    /\ LFtoCR(fasta_input) # fasta_input
    /\ reader.result = Some(1)

FirstHeaderStart(s) == Min(HeaderStarts(s))

\* C19: the seeking loop takes a '>' for the first header only at offset 0
\* or right after a line boundary, and the bytes before the first header
\* change nothing: the result is that of the stream from that header on.
C19_PrefixIsIgnored ==
    /\ [](FastaDone /\ HeaderStarts(fasta_input) # {} =>
             reader.result =
                 count_fasta_file(
                     Rest(fasta_input, FirstHeaderStart(fasta_input) - 1), k))
    /\ [][(reader.pc = "seek" /\ reader'.pc = "header" /\ reader'.pos > reader.pos)
             => InHeaderPosition(fasta_input, reader'.pos)]_vars

\* "A>\n>\nA": a prefix holding a '>' in mid-line, then one record.
C19_Witness ==
    /\ FastaDone /\ k = 1
    /\ fasta_input = <<65, GT, LF, GT, LF, 65>>
    /\ FirstHeaderStart(fasta_input) = 4
    /\ reader.result = Some(1)

----------------------------------------------------------------------------
(* Claims on the traversal and on count_file (Spec) *)

RECURSIVE SeqSum(_)
SeqSum(q) == IF q = <<>> THEN 0 ELSE Head(q) + SeqSum(Tail(q))

\* What the format says a stream is worth: the sum over its records when
\* it is well-formed; the sample streams that are not are worth nothing.
\* Tabulated once over the sample streams and every k.
Worth(s, kk) == IF WellFormed(s) THEN RecordSum(s, kk) ELSE 0
WorthTable ==
    {<<s, kk, Worth(s, kk)>> : s \in EntryStreams \cup RawStreams, kk \in 0..MaxK}
StreamCount(s) == (CHOOSE t \in WorthTable : t[1] = s /\ t[2] = k)[3]
\* The sample archives, each with the entries it holds.
ArchiveTable == {<<TarEncode(es), es>> : es \in EntryLists}
\* What a listed path that is no directory is worth.
LeafCount(node) == IF node.open THEN StreamCount(node.bytes) ELSE 0
EntrySum(es) == SeqSum([i \in 1..Len(es) |-> StreamCount(es[i])])

IsLeaf(node) == ~node.read_dir
DirectoryReturned == ret # <<>> /\ ret[1].how = "directory"
FileReturned == ret # <<>> /\ ret[1].how = "file"

PartCounts(r) == [i \in 1..Len(r.parts) |-> r.parts[i].count]
\* The count added for an enumerated entry that is no directory is what
\* that entry is worth.
PartsAreChildCounts(r) ==
    \A i \in 1..Len(r.parts) :
        IsLeaf(r.parts[i].node) => r.parts[i].count = LeafCount(r.parts[i].node)

\* C5 as stated: a directory's count is the sum of the counts of all its
\* immediate children: of those enumerated and of the file the enumeration
\* left unlisted.
C5_DirectoryIsSumOfAllChildren ==
    DirectoryReturned =>
        ret[1].count =
            SeqSum(PartCounts(ret[1]))
            + SeqSum([i \in 1..Len(ret[1].unlisted) |-> LeafCount(ret[1].unlisted[i])])

\* C5 amended: a directory's count is the sum of the counts of the children
\* its enumeration yielded, which are all of them when the enumeration ends
\* without error; an empty directory and one of unreadable children give 0.
C5_DirectoryIsSumOfEnumerated ==
    DirectoryReturned =>
        /\ ret[1].count = SeqSum(PartCounts(ret[1]))
        /\ PartsAreChildCounts(ret[1])
        /\ ret[1].ended = "end" => ret[1].unlisted = <<>>
        /\ ret[1].parts = <<>> => ret[1].count = 0
        /\ (\A i \in 1..Len(ret[1].parts) : ret[1].parts[i].node = Missing)
               => ret[1].count = 0

\* A root directory has returned the counts of a file and of a directory
\* below it, both positive.
C5_Witness ==
    /\ DirectoryReturned /\ ret[1].ended = "end"
    /\ Len(ret[1].path) = 1
    /\ Len(ret[1].parts) = 2
    /\ \E i \in 1..2 : ret[1].parts[i].node = Directory /\ ret[1].parts[i].count > 0
    /\ \E i \in 1..2 : IsLeaf(ret[1].parts[i].node) /\ ret[1].parts[i].count > 0
    /\ ret[1].count = ret[1].parts[1].count + ret[1].parts[2].count

\* C6: a file that is an archive of sequence entries with a positive total
\* counts the sum of its entries' counts; an entry that is not in the
\* sequence format adds 0.
C6_ArchiveSum ==
    FileReturned =>
        \A a \in ArchiveTable :
            (ret[1].node.bytes = a[1] /\ EntrySum(a[2]) > 0)
                => ret[1].count = EntrySum(a[2])

\* The archive of spec.md section 8: entries of 10 and 20 residues, k = 5.
C6_Witness ==
    /\ FileReturned /\ k = 5
    /\ ret[1].node.bytes = TarEncode(<<Record(10), Record(20)>>)
    /\ ret[1].count = 22

\* C7 as stated: an entry that is itself an archive of sequence records
\* adds the sum of its nested entries' counts.
C7_NestedArchiveIsSummed ==
    FileReturned =>
        \A e \in EntryStreams :
            (ret[1].node.bytes = TarEncode(<<TarEncode(<<e>>)>>) /\ StreamCount(e) > 0)
                => ret[1].count = StreamCount(e)

\* Neither an archive nor in the sequence format.
IsNeither(node) ==
    /\ ~node.read_dir /\ node.open
    /\ count_tar_file(node.bytes, k) = None
    /\ count_fasta_file(node.bytes, k) = None

\* Every entry a directory frame was given has its count added, but the
\* one whose call is still pending or has just returned.
EveryEntryAdded ==
    \A j \in 1..Len(stack) :
        stack[j].fn = "count_directory" =>
            Len(stack[j].parts) =
                stack[j].yielded - (IF j < Len(stack) \/ ret # <<>> THEN 1 ELSE 0)

\* A call returns to the caller that made it: main gets the count of the
\* root path it called for, a directory that of the entry it was given.
ReturnsToCaller ==
    ret # <<>> =>
        ret[1].path = IF stack = <<>> THEN inputs[next_input]
                      ELSE Append(Top.path, Top.yielded)

\* C8: a file that is neither counts 0, and the scan goes on: the directory
\* that lists it adds a count for every entry it is given, before and after
\* that file, and main adds a count for every root path.
C8_NeitherFileCountsZero ==
    /\ (FileReturned /\ IsNeither(ret[1].node)) => ret[1].count = 0
    /\ ReturnsToCaller
    /\ EveryEntryAdded
    /\ DirectoryReturned =>
           /\ Len(ret[1].parts) = ret[1].yielded
           /\ PartsAreChildCounts(ret[1])
    /\ Len(root_counts) = next_input - 1
    /\ total_count = SeqSum(root_counts)
    /\ Printed => Len(root_counts) = Len(inputs) /\ output = <<total_count>>

\* A directory lists a file that is neither and then a sequence file; the
\* sequence file's count has been added.
C8_Witness ==
    /\ DirectoryReturned /\ ret[1].ended = "end"
    /\ Len(ret[1].parts) = 2
    /\ IsNeither(ret[1].parts[1].node)
    /\ ret[1].parts[1].count = 0
    /\ ret[1].parts[2].count > 0
    /\ ret[1].count = ret[1].parts[2].count

\* C9: count_path tries the directory first and the file only when that
\* fails; a path that opens as neither counts 0 and raises nothing: the
\* calls that wait for it are as they were.
C9_UnopenableCountsZero ==
    /\ ret # <<>> =>
          /\ ret[1].node.read_dir => ret[1].how = "directory"
          /\ (~ret[1].node.read_dir /\ ret[1].node.open) => ret[1].how = "file"
          /\ (~ret[1].node.read_dir /\ ~ret[1].node.open)
                 => ret[1].how = "ignored" /\ ret[1].count = 0
    /\ \A j \in 1..Len(stack) :
          stack[j].fn = "count_directory" => stack[j].node.read_dir
    /\ \A j \in 1..Len(stack) : \A i \in 1..Len(stack[j].parts) :
          stack[j].parts[i].node = Missing => stack[j].parts[i].count = 0

\* A directory lists an unopenable path and then a sequence file; the
\* sequence file's count has been added.
C9_Witness ==
    /\ DirectoryReturned /\ ret[1].ended = "end"
    /\ Len(ret[1].parts) = 2
    /\ ret[1].parts[1].node = Missing
    /\ ret[1].parts[1].count = 0
    /\ ret[1].parts[2].count > 0
    /\ ret[1].count = ret[1].parts[2].count

\* C10: when the enumeration fails, count_directory returns the sum of the
\* counts of the entries enumerated before the failure.
C10_PartialSumKept ==
    (DirectoryReturned /\ ret[1].ended = "error")
        => /\ ret[1].count = SeqSum(PartCounts(ret[1]))
           /\ Len(ret[1].parts) = ret[1].yielded
           /\ PartsAreChildCounts(ret[1])

\* The enumeration failed on a sequence file, after an entry whose positive
\* count is what the directory returned.
C10_Witness ==
    /\ DirectoryReturned /\ ret[1].ended = "error"
    /\ Len(ret[1].parts) = 1
    /\ ret[1].parts[1].count > 0
    /\ ret[1].unlisted = <<File(ScenarioStream, TRUE)>>
    /\ ret[1].count = ret[1].parts[1].count

----------------------------------------------------------------------------
(* Claims on count_file's two attempts (Spec) *)

\* For every file of the model and every k: the archive attempt's verdict,
\* the sequence attempt's verdict on the whole content, the offset the
\* archive attempt leaves, and the sequence attempt's verdict from there.
AttemptTable ==
    {<<n, kk, count_tar_file(n.bytes, kk), count_fasta_file(n.bytes, kk),
       ArchiveOffset(n.bytes, 0),
       count_fasta_file(Rest(n.bytes, ArchiveOffset(n.bytes, 0)), kk)>> :
        n \in FileNodes, kk \in 1..MaxK}
Attempts(n) == CHOOSE t \in AttemptTable : t[1] = n /\ t[2] = k
TarVerdict(n) == Attempts(n)[3]
FastaVerdict(n) == Attempts(n)[4]
OffsetAfterTar(n) == Attempts(n)[5]
FastaVerdictFromOffset(n) == Attempts(n)[6]

\* C12: the sequence attempt is made only when the archive attempt was
\* negative, and on a file that can be repositioned its result is that of
\* count_fasta_file on the whole content from offset 0, however far the
\* archive attempt had read.
C12_SequenceAttemptFromStart ==
    (FileReturned /\ ret[1].node.seekable) =>
        ret[1].count =
            IF TarVerdict(ret[1].node) # None
            THEN TarVerdict(ret[1].node)[1]
            ELSE unwrap_or_default(FastaVerdict(ret[1].node))

\* The archive attempt read into the scenario file and gave it up; the
\* count is that of the whole content, not that of the rest.
C12_Witness ==
    /\ FileReturned /\ ret[1].node = File(ScenarioStream, TRUE)
    /\ TarVerdict(ret[1].node) = None
    /\ OffsetAfterTar(ret[1].node) > 0
    /\ ret[1].count = unwrap_or_default(FastaVerdict(ret[1].node))
    /\ ret[1].count > unwrap_or_default(FastaVerdictFromOffset(ret[1].node))

\* C13 as stated: when the archive attempt is negative and the file cannot
\* be repositioned, the count is that of the sequence attempt made at the
\* offset the archive attempt left.
C13_UnseekableStillAttempted ==
    (FileReturned /\ ~ret[1].node.seekable /\ TarVerdict(ret[1].node) = None)
        => ret[1].count = unwrap_or_default(FastaVerdictFromOffset(ret[1].node))

\* The stream the sequence attempt is made on, when it is made where the
\* file stands: the whole content after a rewind, else the rest.
FallbackVerdict(n) ==
    IF n.seekable THEN FastaVerdict(n) ELSE FastaVerdictFromOffset(n)

\* C14 as stated: count_tar_file never gives a successful count of 0, and
\* every negative archive attempt is followed by the sequence attempt, whose
\* count is the file's.
C14_ZeroSumFallsBack ==
    FileReturned =>
        /\ TarVerdict(ret[1].node) # Some(0)
        /\ TarVerdict(ret[1].node) = None
               => ret[1].count = unwrap_or_default(FallbackVerdict(ret[1].node))

\* C15 as stated: a file that is an archive whose entries all count 0
\* counts 0.
C15_ZeroSumArchiveCountsZero ==
    FileReturned =>
        \A a \in ArchiveTable :
            (ret[1].node.bytes = a[1] /\ EntrySum(a[2]) = 0) => ret[1].count = 0

\* The sum of a sequence of counts as a function of how often each count
\* occurs in it, whatever the order.
Occurrences(q, c) == Cardinality({i \in 1..Len(q) : q[i] = c})
RECURSIVE SumOfCounts(_, _)
SumOfCounts(S, q) ==
    IF S = {} THEN 0
    ELSE LET c == CHOOSE x \in S : TRUE
         IN  c * Occurrences(q, c) + SumOfCounts(S \ {c}, q)
OrderFreeSum(q) == SumOfCounts({q[i] : i \in 1..Len(q)}, q)

\* C20: what count_directory returns, and what main prints, is determined
\* by the counts of the children (of the root paths) and how often each
\* occurs, not by the order they came in; the sum a directory has reached
\* so far is likewise.
C20_OrderIndependentSum ==
    /\ DirectoryReturned => ret[1].count = OrderFreeSum(PartCounts(ret[1]))
    /\ \A j \in 1..Len(stack) :
           stack[j].fn = "count_directory"
               => stack[j].sum = OrderFreeSum(PartCounts(stack[j]))
    /\ total_count = OrderFreeSum(root_counts)
    /\ Printed => output = <<OrderFreeSum(root_counts)>>

\* A directory has returned after a sequence file and a file that is
\* neither, in that order; its count is the sequence file's.
C20_Witness ==
    /\ DirectoryReturned /\ ret[1].ended = "end"
    /\ Len(ret[1].parts) = 2
    /\ ret[1].parts[1].node = File(ScenarioStream, TRUE)
    /\ ret[1].parts[1].count > 0
    /\ ret[1].parts[2].node = File(MidLineStream, TRUE)
    /\ ret[1].count = ret[1].parts[1].count

----------------------------------------------------------------------------
(* Claims on termination (ScanSpec) *)

\* A step of count_fasta_file consumes one byte or leaves the loop it is in.
ConsumesOrExits ==
    reader' # reader =>
        \/ reader'.pos = reader.pos + 1 /\ reader'.pos <= Len(fasta_input)
        \/ reader'.pos = reader.pos /\ reader'.pc # reader.pc

\* With the stream exhausted at the top of the record loop, the loop exits.
ExitsWhenExhausted ==
    (/\ reader.pc = "header" /\ ~reader.has_characters
     /\ reader.pos = Len(fasta_input))
        => reader'.pc = "done"

\* C11: the scan terminates: every step of count_fasta_file consumes a byte
\* or exits its loop, the record loop exits once the stream is exhausted and
\* the call returns, and main prints one total, the sum of count_path over
\* the root paths, and nothing after it.
C11_ScanTerminates ==
    /\ [][ConsumesOrExits]_vars
    /\ [][reader' # reader => ExitsWhenExhausted]_vars
    /\ <>FastaDone
    /\ <>Printed
    /\ [](Printed => /\ Len(root_counts) = Len(inputs)
                     /\ output = <<SeqSum(root_counts)>>
                     /\ stack = <<>> /\ ret = <<>>)
    /\ [][Printed => output' = output]_vars

\* Two root paths, both with a positive count, and the total printed.
C11_Witness ==
    /\ Printed /\ Len(inputs) = 2
    /\ root_counts[1] > 0 /\ root_counts[2] > 0
    /\ output = <<root_counts[1] + root_counts[2]>>

====
